---- MODULE Spec2Model ----
(***************************************************************************)
(* Verification model of the ZoKrates optimisation core:                   *)
(*   - ir::folder        (zokrates_core/src/ir/folder.rs)                  *)
(*   - typed_absy::result_folder                                           *)
(*                       (zokrates_core/src/typed_absy/result_folder.rs)   *)
(*   - optimizer         (zokrates_core/src/optimizer/mod.rs)              *)
(* Three state machines share the module; each has its own specification   *)
(* (SpecIR, SpecTyped, SpecOpt) and Spec is their union.                   *)
(***************************************************************************)
EXTENDS Integers, Sequences, FiniteSets, TLC

VARIABLES ir, ty, opt

vars == <<ir, ty, opt>>

(***************************************************************************)
(* Bounds of the model                                                     *)
(***************************************************************************)
Modulus == 3        \* size of the coefficient ring standing for T: Field
MaxVar == 3         \* FlatVariables are 0..MaxVar, 0 is FlatVariable::one()
IRMaxStmts == 2     \* longest statement list of an ir::Prog given to fold_module
OptMaxStmts == 3    \* longest statement list of a ProgIterator given to optimize
TyMaxStmts == 2     \* longest statement list of the main function of a TypedProgram

(***************************************************************************)
(* Helpers                                                                 *)
(***************************************************************************)
RECURSIVE Flatten(_)
Flatten(ss) == IF ss = <<>> THEN <<>> ELSE Head(ss) \o Flatten(Tail(ss))

SeqsUpTo(S, n) == UNION {[1..k -> S] : k \in 0..n}

Range(s) == {s[i] : i \in DOMAIN s}

(***************************************************************************)
(* IR data model (crate::ir): FlatVariable, LinComb, QuadComb, Statement,  *)
(* Directive, FlatParameter, Prog                                          *)
(***************************************************************************)
Vars == 0..MaxVar

One == 0

Quad(l, r) == [left |-> l, right |-> r]

NoQuad == Quad(<<>>, <<>>)

Constraint(q, l, m) ==
  [k |-> "Constraint", quad |-> q, lin |-> l, msg |-> m,
   inputs |-> <<>>, outputs |-> <<>>, solver |-> "none"]

Directive(ins, outs, s) ==
  [k |-> "Directive", quad |-> NoQuad, lin |-> <<>>, msg |-> "none",
   inputs |-> ins, outputs |-> outs, solver |-> s]

FlatParameter(v, p) == [id |-> v, private |-> p]

IdVar == [v \in Vars |-> v]

(***************************************************************************)
(* A Folder implementation.  kind selects the operations it overrides:     *)
(*   "default"   overrides nothing                                         *)
(*   "variable"  overrides fold_variable with the function g               *)
(*   "statement" overrides fold_statement: the n-th call answers beh[n]    *)
(*               ("drop": no statement, "default": the default fold,       *)
(*                "twice": the default fold followed by a copy of it)      *)
(***************************************************************************)
Folder(kind, g, beh) == [kind |-> kind, g |-> g, beh |-> beh]

DefaultFolder == Folder("default", IdVar, <<>>)

(***************************************************************************)
(* ir::folder.  Every operation returns the folded value v and calls, the  *)
(* sequence of variables f.fold_variable was invoked on, in call order.    *)
(***************************************************************************)
fold_variable(f, v) == v

Folder_fold_variable(f, v) ==
  [v |-> IF f.kind = "variable" THEN f.g[v] ELSE fold_variable(f, v),
   calls |-> <<v>>]

fold_linear_combination(f, e) ==
  LET r == [i \in 1..Len(e) |-> Folder_fold_variable(f, e[i][1])]
  IN [v |-> [i \in 1..Len(e) |-> <<r[i].v, e[i][2]>>],
      calls |-> Flatten([i \in 1..Len(e) |-> r[i].calls])]

Folder_fold_linear_combination(f, e) == fold_linear_combination(f, e)

\* (mutation) the two sides change places
fold_quadratic_combination_swapped(f, e) ==
  LET l == Folder_fold_linear_combination(f, e.left)
      r == Folder_fold_linear_combination(f, e.right)
  IN [v |-> Quad(r.v, l.v), calls |-> l.calls \o r.calls]

\* (mutation) the left side folded into both sides
fold_quadratic_combination_left_twice(f, e) ==
  LET l == Folder_fold_linear_combination(f, e.left)
  IN [v |-> Quad(l.v, l.v), calls |-> l.calls \o l.calls]

fold_quadratic_combination(f, e) ==
  LET l == Folder_fold_linear_combination(f, e.left)
      r == Folder_fold_linear_combination(f, e.right)
  IN [v |-> Quad(l.v, r.v), calls |-> l.calls \o r.calls]

Folder_fold_quadratic_combination(f, es) == fold_quadratic_combination(f, es)

\* (mutation) the outputs of a directive are not folded
fold_directive_inputs_only(f, ds) ==
  LET ins == [i \in 1..Len(ds.inputs) |->
                Folder_fold_quadratic_combination(f, ds.inputs[i])]
  IN [v |-> [ds EXCEPT !.inputs = [i \in 1..Len(ds.inputs) |-> ins[i].v]],
      calls |-> Flatten([i \in 1..Len(ds.inputs) |-> ins[i].calls])]

fold_directive(f, ds) ==
  LET ins == [i \in 1..Len(ds.inputs) |->
                Folder_fold_quadratic_combination(f, ds.inputs[i])]
      outs == [i \in 1..Len(ds.outputs) |->
                Folder_fold_variable(f, ds.outputs[i])]
  IN [v |-> [ds EXCEPT !.inputs = [i \in 1..Len(ds.inputs) |-> ins[i].v],
                       !.outputs = [i \in 1..Len(ds.outputs) |-> outs[i].v]],
      calls |-> Flatten([i \in 1..Len(ds.inputs) |-> ins[i].calls])
                \o Flatten([i \in 1..Len(ds.outputs) |-> outs[i].calls])]

Folder_fold_directive(f, d) == fold_directive(f, d)

\* (mutation) the visibility flag is not carried over
fold_argument_private(f, a) ==
  LET r == Folder_fold_variable(f, a.id)
  IN [v |-> [id |-> r.v, private |-> TRUE], calls |-> r.calls]

fold_argument(f, a) ==
  LET r == Folder_fold_variable(f, a.id)
  IN [v |-> [id |-> r.v, private |-> a.private], calls |-> r.calls]

Folder_fold_argument(f, p) == fold_argument(f, p)

\* (mutation) the message of a constraint is not carried over
fold_statement_no_message(f, s) ==
  IF s.k = "Constraint"
  THEN LET q == Folder_fold_quadratic_combination(f, s.quad)
           l == Folder_fold_linear_combination(f, s.lin)
       IN [v |-> <<Constraint(q.v, l.v, "none")>>, calls |-> q.calls \o l.calls]
  ELSE LET d == Folder_fold_directive(f, s)
       IN [v |-> <<d.v>>, calls |-> d.calls]

fold_statement(f, s) ==
  IF s.k = "Constraint"
  THEN LET q == Folder_fold_quadratic_combination(f, s.quad)
           l == Folder_fold_linear_combination(f, s.lin)
       IN [v |-> <<Constraint(q.v, l.v, s.msg)>>, calls |-> q.calls \o l.calls]
  ELSE LET d == Folder_fold_directive(f, s)
       IN [v |-> <<d.v>>, calls |-> d.calls]

\* n is the number of fold_statement calls the folder has already answered
Folder_fold_statement(f, n, s) ==
  LET d == fold_statement(f, s)
  IN IF f.kind = "statement"
     THEN CASE f.beh[n + 1] = "drop" -> [v |-> <<>>, calls |-> <<>>]
            [] f.beh[n + 1] = "twice" -> [v |-> d.v \o d.v, calls |-> d.calls]
            [] OTHER -> d
     ELSE d

(***************************************************************************)
(* fold_module as a state machine: the three fields of the result are      *)
(* built in the order they are written, one element per step.              *)
(***************************************************************************)
IRIdle ==
  [pc |-> "idle", prog |-> [arguments |-> <<>>, statements |-> <<>>, returns |-> <<>>],
   f |-> DefaultFolder, i |-> 0, arguments |-> <<>>, statements |-> <<>>,
   returns |-> <<>>, calls |-> <<>>, folded |-> <<>>]

IRStmtPool ==
  { Constraint(Quad(<<<<1, 1>>>>, <<<<2, 2>>, <<1, 1>>>>), <<<<2, 1>>>>, "m1"),
    Constraint(Quad(<<<<One, 1>>>>, <<<<1, 1>>>>), <<<<2, 1>>, <<One, 2>>>>, "none"),
    Directive(<<Quad(<<<<1, 1>>>>, <<<<One, 1>>>>)>>, <<2>>, "s1"),
    Directive(<<Quad(<<<<2, 1>>>>, <<<<1, 2>>>>), Quad(<<>>, <<<<1, 1>>>>)>>,
              <<2, 1>>, "s2") }

IRArguments ==
  { <<>>, <<FlatParameter(1, TRUE), FlatParameter(2, FALSE)>> }

IRReturns == { <<>>, <<2, 1>> }

IRProgs ==
  [arguments : IRArguments, statements : SeqsUpTo(IRStmtPool, IRMaxStmts),
   returns : IRReturns]

\* the overrides of fold_variable tried: each maps 0..MaxVar into itself
IRSubsts ==
  { [v \in Vars |-> IF v = One THEN One ELSE 1],
    [v \in Vars |-> IF v = One THEN One ELSE (MaxVar + 1) - v],
    [v \in Vars |-> (v + 1) % (MaxVar + 1)] }

IRFolders(p) ==
  {DefaultFolder}
    \cup {Folder("variable", g, <<>>) : g \in IRSubsts}
    \cup {Folder("statement", IdVar, b) :
            b \in [1..Len(p.statements) -> {"drop", "default", "twice"}]}

IRFoldArgument ==
  /\ ir.pc = "arguments"
  /\ ir.i < Len(ir.prog.arguments)
  /\ LET r == Folder_fold_argument(ir.f, ir.prog.arguments[ir.i + 1])
     IN ir' = [ir EXCEPT !.i = ir.i + 1,
                         !.arguments = Append(ir.arguments, r.v),
                         !.calls = ir.calls \o r.calls]
  /\ UNCHANGED <<ty, opt>>

IRArgumentsCollected ==
  /\ ir.pc = "arguments"
  /\ ir.i = Len(ir.prog.arguments)
  /\ ir' = [ir EXCEPT !.pc = "statements", !.i = 0]
  /\ UNCHANGED <<ty, opt>>

\* (mutation) map instead of flat_map: one statement kept per input statement
IRFoldStatement_first_only ==
  /\ ir.pc = "statements"
  /\ ir.i < Len(ir.prog.statements)
  /\ LET s == ir.prog.statements[ir.i + 1]
         r == Folder_fold_statement(ir.f, ir.i, s)
     IN ir' = [ir EXCEPT !.i = ir.i + 1,
                         !.statements = ir.statements \o (IF r.v = <<>> THEN <<>> ELSE <<r.v[1]>>),
                         !.calls = ir.calls \o r.calls,
                         !.folded = Append(ir.folded, [s |-> s, out |-> r.v])]
  /\ UNCHANGED <<ty, opt>>

IRFoldStatement ==
  /\ ir.pc = "statements"
  /\ ir.i < Len(ir.prog.statements)
  /\ LET s == ir.prog.statements[ir.i + 1]
         r == Folder_fold_statement(ir.f, ir.i, s)
     IN ir' = [ir EXCEPT !.i = ir.i + 1,
                         !.statements = ir.statements \o r.v,
                         !.calls = ir.calls \o r.calls,
                         !.folded = Append(ir.folded, [s |-> s, out |-> r.v])]
  /\ UNCHANGED <<ty, opt>>

IRStatementsCollected ==
  /\ ir.pc = "statements"
  /\ ir.i = Len(ir.prog.statements)
  /\ ir' = [ir EXCEPT !.pc = "returns", !.i = 0]
  /\ UNCHANGED <<ty, opt>>

IRFoldReturn ==
  /\ ir.pc = "returns"
  /\ ir.i < Len(ir.prog.returns)
  /\ LET r == Folder_fold_variable(ir.f, ir.prog.returns[ir.i + 1])
     IN ir' = [ir EXCEPT !.i = ir.i + 1,
                         !.returns = Append(ir.returns, r.v),
                         !.calls = ir.calls \o r.calls]
  /\ UNCHANGED <<ty, opt>>

IRReturnsCollected ==
  /\ ir.pc = "returns"
  /\ ir.i = Len(ir.prog.returns)
  /\ ir' = [ir EXCEPT !.pc = "done"]
  /\ UNCHANGED <<ty, opt>>

IRNext ==
  \/ IRFoldArgument
  \/ IRArgumentsCollected
  \/ IRFoldStatement
  \/ IRStatementsCollected
  \/ IRFoldReturn
  \/ IRReturnsCollected

\* the Prog returned by fold_module
IRResult ==
  [arguments |-> ir.arguments, statements |-> ir.statements, returns |-> ir.returns]

(***************************************************************************)
(* Typed AST (crate::typed_absy).  Every node kind is one record shape.    *)
(*   Type        t, name, elem (<<Type>> of an Array), size (<<UExpression>>*)
(*               of an Array), members (<<[id, ty]>> of a Struct)          *)
(*   expression  sort (Field, Bool, Uint, Array, Struct, Int, Spread), op  *)
(*               (the variant), id (the Identifier folded by fold_name),   *)
(*               key (function key, member id, literal, bitwidth: data no  *)
(*               fold touches), kids (the operands, in order), gens (the   *)
(*               generics of a FunctionCall, <<>> for None), ty (<<type>>  *)
(*               of an ArrayExpression or StructExpression)                *)
(***************************************************************************)
Type(t, name, elem, size, members) ==
  [t |-> t, name |-> name, elem |-> elem, size |-> size, members |-> members]

Expr(sort, op, id, key, kids, gens, t) ==
  [sort |-> sort, op |-> op, id |-> id, key |-> key, kids |-> kids, gens |-> gens,
   ty |-> t]

TypedStatement(k, exprs, assignees, variables, body, elist) ==
  [k |-> k, exprs |-> exprs, assignees |-> assignees, vars |-> variables,
   body |-> body, elist |-> elist]

(***************************************************************************)
(* A ResultFolder implementation and the state of one fold.  The folder    *)
(* is instrumented: each of its operations records the call in log and     *)
(* then runs the default; the operation called as number failAt returns    *)
(* Err instead (failAt = 0: the folder overrides nothing that can fail).   *)
(*   res  "Ok", "Err" (a CompileError is being returned) or "Panic"        *)
(*   ren  <<from, to>>: the folder's fold_name answers Ok(to) for the      *)
(*        Identifier from; <<>>: fold_name is the default                  *)
(*   v    the value of Ok(v); it has no meaning when res is not "Ok"       *)
(***************************************************************************)
FoldState(failAt) ==
  [res |-> "Ok", err |-> <<>>, log |-> <<>>, failAt |-> failAt, ren |-> <<>>, v |-> <<>>]

\* what a log entry says of the node an operation was called on
Tag(op, x) ==
  CASE op \in {"fold_name"} -> x
    [] op \in {"fold_variable", "fold_declaration_variable"} -> x.id
    [] op \in {"fold_parameter"} -> x.id.id
    [] op \in {"fold_type"} -> x.t
    [] op \in {"fold_array_type", "fold_struct_type"} -> x
    [] op \in {"fold_array_expression", "fold_struct_expression",
               "fold_array_expression_inner", "fold_struct_expression_inner"} ->
         <<x.op, x.ty[1]>>
    [] op \in {"fold_statement", "fold_assignee", "fold_function_symbol"} -> x.k
    [] op \in {"fold_function"} -> x.fid
    [] op \in {"fold_expression", "fold_expression_or_spread", "fold_spread",
               "fold_field_expression", "fold_boolean_expression",
               "fold_uint_expression", "fold_int_expression",
               "fold_uint_expression_inner"} -> x.op
    [] OTHER -> "-"

\* the instrumented entry of every operation
Enter(st, op, x) ==
  LET log == Append(st.log, <<op, Tag(op, x)>>)
  IN IF st.res = "Ok" /\ Len(log) = st.failAt
     THEN [st EXCEPT !.log = log, !.res = "Err", !.err = <<"CompileError", Len(log)>>,
                     !.v = x]
     ELSE [st EXCEPT !.log = log, !.v = x]

RECURSIVE Call(_, _, _)
RECURSIVE FoldEach_all(_, _, _, _)
RECURSIVE FoldEach(_, _, _, _)

\* (mutation) every element is folded, the first error is reported afterwards
FoldEach_all(st, ops, xs, i) ==
  IF i > Len(xs) THEN [st EXCEPT !.v = <<>>]
  ELSE LET r == Call(ops[i], st, xs[i])
           rest == FoldEach_all(r, ops, xs, i + 1)
       IN [rest EXCEPT !.v = IF rest.res = "Ok" THEN <<r.v>> \o rest.v
                             ELSE [j \in 1..(Len(xs) - i + 1) |-> <<>>]]

\* xs[i], xs[i+1], ... folded in order by ops[i], ops[i+1], ... until one
\* fails: a sequence of `?`, or map(..).collect::<Result<_, _>>().  Three
\* elements are taken a step.
FoldEach(st, ops, xs, i) ==
  LET n == Len(xs)
      r1 == Call(ops[i], st, xs[i])
      r2 == Call(ops[i + 1], r1, xs[i + 1])
      r3 == Call(ops[i + 2], r2, xs[i + 2])
      none == [j \in 1..(n - i + 1) |-> <<>>]
  IN CASE i > n -> [st EXCEPT !.v = <<>>]
       [] r1.res # "Ok" -> [r1 EXCEPT !.v = none]
       [] i + 1 > n -> [r1 EXCEPT !.v = <<@>>]
       [] r2.res # "Ok" -> [r2 EXCEPT !.v = none]
       [] i + 2 > n -> [r2 EXCEPT !.v = <<r1.v, @>>]
       [] r3.res # "Ok" -> [r3 EXCEPT !.v = none]
       [] OTHER -> [FoldEach(r3, ops, xs, i + 3) EXCEPT !.v = <<r1.v, r2.v, r3.v>> \o @]

Every(op, xs) == [i \in DOMAIN xs |-> op]

\* the node x rebuilt with the folded value v in place of its field
With(x, field, v) == [x EXCEPT ![field] = v]

\* the generics of a call that are Some(g), in order
Generics(gens) == Flatten(gens)

\* generics.map(|g| g.map(..).transpose()): None stays None, Some(g) takes
\* the next folded generic
WithGenerics(gens, folded) ==
  [i \in DOMAIN gens |->
     IF gens[i] = <<>> THEN <<>> ELSE <<folded[Len(Flatten(SubSeq(gens, 1, i)))]>>]

RF_fold_parameter(st, p) ==
  [Call("fold_declaration_variable", st, p.id) EXCEPT !.v = With(p, "id", @)]

\* Ok(n), or Ok(to) from the folder that renames n
RF_fold_name(st, n) ==
  IF st.ren # <<>> /\ n = st.ren[1] THEN [st EXCEPT !.v = st.ren[2]] ELSE st

RF_fold_variable(st, v) ==
  [FoldEach(st, <<"fold_name", "fold_type">>, <<v.id, v.type>>, 1)
     EXCEPT !.v = [id |-> @[1], type |-> @[2]]]

RF_fold_declaration_variable(st, v) ==
  [FoldEach(st, <<"fold_name", "fold_declaration_type">>, <<v.id, v.type>>, 1)
     EXCEPT !.v = [id |-> @[1], type |-> @[2]]]

RF_fold_type(st, t) ==
  CASE t.t = "Array" -> Call("fold_array_type", st, t)
    [] t.t = "Struct" -> Call("fold_struct_type", st, t)
    [] OTHER -> st

WithArrayType(t, v) == [t EXCEPT !.elem = <<v[1]>>, !.size = <<v[2]>>]

RF_fold_array_type(st, t) ==
  [FoldEach(st, <<"fold_type", "fold_uint_expression">>, <<t.elem[1], t.size[1]>>, 1)
     EXCEPT !.v = WithArrayType(t, @)]

WithMembers(t, v) ==
  [t EXCEPT !.members = [i \in DOMAIN t.members |-> [id |-> t.members[i].id, ty |-> v[i]]]]

RF_fold_struct_type(st, t) ==
  [FoldEach(st, Every("fold_type", t.members),
            [i \in DOMAIN t.members |-> t.members[i].ty], 1)
     EXCEPT !.v = WithMembers(t, @)]

RF_fold_declaration_type(st, t) == st

WithSelect(a, v) == [a EXCEPT !.of = <<v[1]>>, !.index = <<v[2]>>]

RF_fold_assignee(st, a) ==
  CASE a.k = "Identifier" ->
         [Call("fold_variable", st, a.var[1]) EXCEPT !.v = With(a, "var", <<@>>)]
    [] a.k = "Select" ->
         [FoldEach(st, <<"fold_assignee", "fold_uint_expression">>,
                   <<a.of[1], a.index[1]>>, 1)
            EXCEPT !.v = WithSelect(a, @)]
    [] a.k = "Member" ->
         [Call("fold_assignee", st, a.of[1]) EXCEPT !.v = With(a, "of", <<@>>)]

RF_fold_expression_or_spread(st, e) ==
  IF e.sort = "Spread" THEN Call("fold_spread", st, e) ELSE Call("fold_expression", st, e)

RF_fold_spread(st, s) ==
  [Call("fold_array_expression", st, s.kids[1]) EXCEPT !.v = With(s, "kids", <<@>>)]

RF_fold_expression(st, e) ==
  CASE e.sort = "Field" -> Call("fold_field_expression", st, e)
    [] e.sort = "Bool" -> Call("fold_boolean_expression", st, e)
    [] e.sort = "Uint" -> Call("fold_uint_expression", st, e)
    [] e.sort = "Array" -> Call("fold_array_expression", st, e)
    [] e.sort = "Struct" -> Call("fold_struct_expression", st, e)
    [] e.sort = "Int" -> Call("fold_int_expression", st, e)

\* the operations the operands of each variant are folded by, in order
FieldOperands(op) ==
  CASE op \in {"Add", "Sub", "Mult", "Div"} ->
         <<"fold_field_expression", "fold_field_expression">>
    [] op = "Pow" -> <<"fold_field_expression", "fold_uint_expression">>
    [] op = "IfElse" ->
         <<"fold_boolean_expression", "fold_field_expression", "fold_field_expression">>
    [] op = "Member" -> <<"fold_struct_expression">>
    [] op = "Select" -> <<"fold_array_expression", "fold_uint_expression">>
    [] OTHER -> <<>>

BooleanOperands(op) ==
  CASE op \in {"FieldEq", "FieldLt", "FieldLe", "FieldGt", "FieldGe"} ->
         <<"fold_field_expression", "fold_field_expression">>
    [] op \in {"BoolEq", "Or", "And"} ->
         <<"fold_boolean_expression", "fold_boolean_expression">>
    [] op = "ArrayEq" -> <<"fold_array_expression", "fold_array_expression">>
    [] op = "StructEq" -> <<"fold_struct_expression", "fold_struct_expression">>
    [] op \in {"UintEq", "UintLt", "UintLe", "UintGt", "UintGe"} ->
         <<"fold_uint_expression", "fold_uint_expression">>
    [] op = "Not" -> <<"fold_boolean_expression">>
    [] op = "IfElse" ->
         <<"fold_boolean_expression", "fold_boolean_expression", "fold_boolean_expression">>
    [] op = "Member" -> <<"fold_struct_expression">>
    [] op = "Select" -> <<"fold_array_expression", "fold_uint_expression">>
    [] OTHER -> <<>>

UintOperands(op) ==
  CASE op \in {"Add", "Sub", "FloorSub", "Mult", "Div", "Rem", "Xor", "And", "Or"} ->
         <<"fold_uint_expression", "fold_uint_expression">>
    [] op \in {"LeftShift", "RightShift"} ->
         <<"fold_uint_expression", "fold_field_expression">>
    [] op = "Not" -> <<"fold_uint_expression">>
    [] op = "Select" -> <<"fold_array_expression", "fold_uint_expression">>
    [] op = "IfElse" ->
         <<"fold_boolean_expression", "fold_uint_expression", "fold_uint_expression">>
    [] op = "Member" -> <<"fold_struct_expression">>
    [] OTHER -> <<>>

ArrayOperands(e) ==
  CASE e.op = "Value" -> Every("fold_expression_or_spread", e.kids)
    [] e.op = "IfElse" ->
         <<"fold_boolean_expression", "fold_array_expression", "fold_array_expression">>
    [] e.op = "Member" -> <<"fold_struct_expression">>
    [] e.op = "Select" -> <<"fold_array_expression", "fold_uint_expression">>
    [] e.op = "Slice" ->
         <<"fold_array_expression", "fold_uint_expression", "fold_uint_expression">>
    [] e.op = "Repeat" -> <<"fold_expression", "fold_uint_expression">>
    [] OTHER -> <<>>

StructOperands(e) ==
  CASE e.op = "Value" -> Every("fold_expression", e.kids)
    [] e.op = "IfElse" ->
         <<"fold_boolean_expression", "fold_struct_expression", "fold_struct_expression">>
    [] e.op = "Member" -> <<"fold_struct_expression">>
    [] e.op = "Select" -> <<"fold_array_expression", "fold_uint_expression">>
    [] OTHER -> <<>>

\* one arm of the match of an expression fold: an Identifier goes through
\* fold_name, a FunctionCall folds its generics then its arguments, any other
\* variant folds its operands in order; the variant is rebuilt from the results
VariantOperations(e, operands) ==
  CASE e.op = "Identifier" -> <<"fold_name">>
    [] e.op = "FunctionCall" ->
         Every("fold_uint_expression", Generics(e.gens)) \o Every("fold_expression", e.kids)
    [] OTHER -> operands

VariantOperands(e) ==
  CASE e.op = "Identifier" -> <<e.id>>
    [] e.op = "FunctionCall" -> Generics(e.gens) \o e.kids
    [] OTHER -> e.kids

WithVariantOperands(e, v) ==
  CASE e.op = "Identifier" -> [e EXCEPT !.id = v[1]]
    [] e.op = "FunctionCall" ->
         [e EXCEPT !.gens = WithGenerics(e.gens, v),
                   !.kids = SubSeq(v, Len(Generics(e.gens)) + 1, Len(v))]
    [] OTHER -> [e EXCEPT !.kids = v]

FoldVariant(st, e, operands) ==
  [FoldEach(st, VariantOperations(e, operands), VariantOperands(e), 1)
     EXCEPT !.v = WithVariantOperands(e, @)]

RF_fold_field_expression(st, e) == FoldVariant(st, e, FieldOperands(e.op))

\* (mutation) an Int expression is returned as it is
RF_fold_int_expression_identity(st, e) == st

RF_fold_int_expression(st, e) == [st EXCEPT !.res = "Panic"]

RF_fold_boolean_expression(st, e) == FoldVariant(st, e, BooleanOperands(e.op))

\* UExpression { inner: f.fold_uint_expression_inner(e.bitwidth, e.inner)?, ..e }
RF_fold_uint_expression(st, e) == Call("fold_uint_expression_inner", st, e)

RF_fold_uint_expression_inner(st, e) == FoldVariant(st, e, UintOperands(e.op))

RF_fold_array_expression_inner(st, e) == FoldVariant(st, e, ArrayOperands(e))

RF_fold_struct_expression_inner(st, e) == FoldVariant(st, e, StructOperands(e))

\* (mutation) the inner fold is given the type the expression came with
RF_fold_array_expression_unthreaded(st, e) ==
  LET t == Call("fold_array_type", st, e.ty[1])
  IN CASE t.res # "Ok" -> t
       [] OTHER -> Call("fold_array_expression_inner", t, e)

\* the type is folded first; the inner fold is given the folded type, which
\* is the type of the ArrayExpression that is returned
RF_fold_array_expression(st, e) ==
  LET t == Call("fold_array_type", st, e.ty[1])
  IN CASE t.res # "Ok" -> t
       [] OTHER -> Call("fold_array_expression_inner", t, [e EXCEPT !.ty = <<t.v>>])

\* the inner fold is given &e.ty; the type itself is kept by ..e
RF_fold_struct_expression(st, e) == Call("fold_struct_expression_inner", st, e)

WithExpressionList(es, v) ==
  LET g == Len(Generics(es.gens))
      a == Len(es.args)
  IN [es EXCEPT !.gens = WithGenerics(es.gens, v),
                !.args = SubSeq(v, g + 1, g + a),
                !.types = SubSeq(v, g + a + 1, Len(v))]

RF_fold_expression_list(st, es) ==
  [FoldEach(st,
            Every("fold_uint_expression", Generics(es.gens))
              \o Every("fold_expression", es.args) \o Every("fold_type", es.types),
            Generics(es.gens) \o es.args \o es.types, 1)
     EXCEPT !.v = WithExpressionList(es, @)]

\* the operations one arm of fold_statement calls, in order
StatementOperations(s) ==
  CASE s.k = "Return" -> Every("fold_expression", s.exprs)
    [] s.k = "Definition" -> <<"fold_assignee", "fold_expression">>
    [] s.k = "Declaration" -> <<"fold_variable">>
    [] s.k = "Assertion" -> <<"fold_boolean_expression">>
    [] s.k = "For" ->
         <<"fold_variable", "fold_uint_expression", "fold_uint_expression">>
           \o Every("fold_statement", s.body)
    [] s.k = "MultipleDefinition" ->
         Every("fold_assignee", s.assignees) \o <<"fold_expression_list">>
    [] OTHER -> <<>>

\* and what they are called on
StatementOperands(s) ==
  CASE s.k = "Return" -> s.exprs
    [] s.k = "Definition" -> <<s.assignees[1], s.exprs[1]>>
    [] s.k = "Declaration" -> s.vars
    [] s.k = "Assertion" -> s.exprs
    [] s.k = "For" -> <<s.vars[1], s.exprs[1], s.exprs[2]>> \o s.body
    [] s.k = "MultipleDefinition" -> s.assignees \o s.elist
    [] OTHER -> <<>>

\* the statement rebuilt by the arm; `s => s` for the other statements
WithStatementOperands(s, v) ==
  CASE s.k = "Return" -> [s EXCEPT !.exprs = v]
    [] s.k = "Definition" -> [s EXCEPT !.assignees = <<v[1]>>, !.exprs = <<v[2]>>]
    [] s.k = "Declaration" -> [s EXCEPT !.vars = v]
    [] s.k = "Assertion" -> [s EXCEPT !.exprs = v]
    [] s.k = "For" ->
         [s EXCEPT !.vars = <<v[1]>>, !.exprs = <<v[2], v[3]>>,
                   !.body = Flatten(SubSeq(v, 4, Len(v)))]
    [] s.k = "MultipleDefinition" ->
         [s EXCEPT !.assignees = SubSeq(v, 1, Len(s.assignees)), !.elist = <<v[Len(v)]>>]
    [] OTHER -> s

\* Ok(vec![res])
RF_fold_statement(st, s) ==
  [FoldEach(st, StatementOperations(s), StatementOperands(s), 1)
     EXCEPT !.v = <<WithStatementOperands(s, @)>>]

WithBody(fun, v) ==
  [fun EXCEPT !.arguments = SubSeq(v, 1, Len(fun.arguments)),
              !.statements = Flatten(SubSeq(v, Len(fun.arguments) + 1, Len(v)))]

RF_fold_function(st, fun) ==
  [FoldEach(st,
            Every("fold_parameter", fun.arguments) \o Every("fold_statement", fun.statements),
            fun.arguments \o fun.statements, 1)
     EXCEPT !.v = WithBody(fun, @)]

\* (mutation) the function a There symbol refers to is folded as well
RF_fold_function_symbol_recursive(st, s) ==
  IF s.k = "Here"
  THEN [Call("fold_function", st, s.fun[1]) EXCEPT !.v = With(s, "fun", <<@>>)]
  ELSE [Call("fold_function", st,
             [fid |-> "lib::g", arguments |-> <<>>, statements |-> <<>>,
              signature |-> "lib::g"])
          EXCEPT !.v = s]

RF_fold_function_symbol(st, s) ==
  IF s.k = "Here"
  THEN [Call("fold_function", st, s.fun[1]) EXCEPT !.v = With(s, "fun", <<@>>)]
  ELSE st

WithSymbols(m, v) ==
  [m EXCEPT !.functions =
     [i \in DOMAIN m.functions |-> [key |-> m.functions[i].key, symbol |-> v[i]]]]

RF_fold_module(st, m) ==
  [FoldEach(st, Every("fold_function_symbol", m.functions),
            [i \in DOMAIN m.functions |-> m.functions[i].symbol], 1)
     EXCEPT !.v = WithSymbols(m, @)]

WithModules(p, v) ==
  [p EXCEPT !.modules =
     [i \in DOMAIN p.modules |-> [id |-> p.modules[i].id, module |-> v[i]]]]

RF_fold_program(st, p) ==
  [FoldEach(st, Every("fold_module", p.modules),
            [i \in DOMAIN p.modules |-> p.modules[i].module], 1)
     EXCEPT !.v = WithModules(p, @)]

\* f.op(x): the operation of the instrumented folder
Call(op, st, x) ==
  LET s1 == Enter(st, op, x)
  IN CASE s1.res # "Ok" -> s1
       [] op = "fold_program" -> RF_fold_program(s1, x)
       [] op = "fold_module" -> RF_fold_module(s1, x)
       [] op = "fold_function_symbol" -> RF_fold_function_symbol(s1, x)
       [] op = "fold_function" -> RF_fold_function(s1, x)
       [] op = "fold_parameter" -> RF_fold_parameter(s1, x)
       [] op = "fold_name" -> RF_fold_name(s1, x)
       [] op = "fold_variable" -> RF_fold_variable(s1, x)
       [] op = "fold_declaration_variable" -> RF_fold_declaration_variable(s1, x)
       [] op = "fold_type" -> RF_fold_type(s1, x)
       [] op = "fold_array_type" -> RF_fold_array_type(s1, x)
       [] op = "fold_struct_type" -> RF_fold_struct_type(s1, x)
       [] op = "fold_declaration_type" -> RF_fold_declaration_type(s1, x)
       [] op = "fold_assignee" -> RF_fold_assignee(s1, x)
       [] op = "fold_statement" -> RF_fold_statement(s1, x)
       [] op = "fold_expression_or_spread" -> RF_fold_expression_or_spread(s1, x)
       [] op = "fold_spread" -> RF_fold_spread(s1, x)
       [] op = "fold_expression" -> RF_fold_expression(s1, x)
       [] op = "fold_array_expression" -> RF_fold_array_expression(s1, x)
       [] op = "fold_struct_expression" -> RF_fold_struct_expression(s1, x)
       [] op = "fold_expression_list" -> RF_fold_expression_list(s1, x)
       [] op = "fold_int_expression" -> RF_fold_int_expression(s1, x)
       [] op = "fold_field_expression" -> RF_fold_field_expression(s1, x)
       [] op = "fold_boolean_expression" -> RF_fold_boolean_expression(s1, x)
       [] op = "fold_uint_expression" -> RF_fold_uint_expression(s1, x)
       [] op = "fold_uint_expression_inner" -> RF_fold_uint_expression_inner(s1, x)
       [] op = "fold_array_expression_inner" -> RF_fold_array_expression_inner(s1, x)
       [] op = "fold_struct_expression_inner" -> RF_fold_struct_expression_inner(s1, x)

(***************************************************************************)
(* The typed programs fold_program is given                                *)
(***************************************************************************)
FieldType == Type("FieldElement", "", <<>>, <<>>, <<>>)

UintType == Type("Uint", "", <<>>, <<>>, <<>>)

Leaf(sort, op, id, key) == Expr(sort, op, id, key, <<>>, <<>>, <<>>)

Node(sort, op, kids) == Expr(sort, op, "", "", kids, <<>>, <<>>)

FNumber == Leaf("Field", "Number", "", "1")

FIdentifier(n) == Leaf("Field", "Identifier", n, "")

BIdentifier(n) == Leaf("Bool", "Identifier", n, "")

UValue == Leaf("Uint", "Value", "", "B32")

UIdentifier(n) == Leaf("Uint", "Identifier", n, "B32")

UNode(op, kids) == Expr("Uint", op, "", "B32", kids, <<>>, <<>>)

IntValue == Leaf("Int", "Value", "", "7")

ArrayType(elem, size) == Type("Array", "", <<elem>>, <<size>>, <<>>)

StructType(name, members) == Type("Struct", name, <<>>, <<>>, members)

AExpr(op, id, kids, t) == Expr("Array", op, id, "", kids, <<>>, <<t>>)

SExpr(op, id, kids, t) == Expr("Struct", op, id, "", kids, <<>>, <<t>>)

Spread(a) == Node("Spread", "Spread", <<a>>)

FunctionCall(sort, key, gens, exps) == Expr(sort, "FunctionCall", "", key, exps, gens, <<>>)

Variable(id, t) == [id |-> id, type |-> t]

Assignee(k, v, of, index, member) ==
  [k |-> k, var |-> v, of |-> of, index |-> index, member |-> member]

AIdentifier(v) == Assignee("Identifier", <<v>>, <<>>, <<>>, "")

Return(es) == TypedStatement("Return", es, <<>>, <<>>, <<>>, <<>>)

Definition(a, e) == TypedStatement("Definition", <<e>>, <<a>>, <<>>, <<>>, <<>>)

Declaration(v) == TypedStatement("Declaration", <<>>, <<>>, <<v>>, <<>>, <<>>)

Assertion(e) == TypedStatement("Assertion", <<e>>, <<>>, <<>>, <<>>, <<>>)

For(v, from, to, body) == TypedStatement("For", <<from, to>>, <<>>, <<v>>, body, <<>>)

MultipleDefinition(as, el) ==
  TypedStatement("MultipleDefinition", <<>>, as, <<>>, <<>>, <<el>>)

FieldArray == ArrayType(FieldType, UIdentifier("n"))

PairStruct == StructType("Pair", <<[id |-> "x", ty |-> FieldType], [id |-> "y", ty |-> FieldArray]>>)

\* statements without an Int expression
TyPlainStmts ==
  { Definition(Assignee("Select", <<>>, <<AIdentifier(Variable("c", FieldArray))>>,
                        <<UIdentifier("i")>>, ""),
               Node("Field", "Select",
                 <<AExpr("Value", "",
                     <<FNumber, Spread(AExpr("Identifier", "t", <<>>, FieldArray))>>,
                     FieldArray),
                   UIdentifier("i")>>)),
    Return(<<Node("Field", "Pow", <<FIdentifier("a"), UValue>>),
             Node("Bool", "UintLt", <<UIdentifier("b"), UNode("Not", <<UValue>>)>>)>>),
    Declaration(Variable("c", PairStruct)),
    Assertion(Node("Bool", "StructEq",
                <<SExpr("Identifier", "s", <<>>, PairStruct),
                  SExpr("Value", "", <<FNumber, AExpr("Identifier", "t", <<>>, FieldArray)>>,
                        PairStruct)>>)),
    For(Variable("i", UintType), UValue, UIdentifier("n"),
        << Assertion(BIdentifier("a")),
           Definition(AIdentifier(Variable("a", FieldType)),
                      Node("Field", "Add", <<FIdentifier("b"), FNumber>>)) >>),
    MultipleDefinition(
      << AIdentifier(Variable("a", FieldType)),
         Assignee("Member", <<>>, <<AIdentifier(Variable("c", PairStruct))>>, <<>>, "x") >>,
      [key |-> "g", gens |-> << <<>>, <<UValue>> >>,
       args |-> <<FIdentifier("b"), UNode("LeftShift", <<UIdentifier("n"), FNumber>>)>>,
       types |-> <<FieldType, FieldArray>>]) }

\* statements in which an Int expression is an operand
TyIntStmts ==
  { Return(<<FIdentifier("a"), IntValue, FIdentifier("b")>>),
    Definition(AIdentifier(Variable("a", FieldType)),
               FunctionCall("Field", "g", << <<UIdentifier("n")>> >>,
                            <<FNumber, AExpr("Repeat", "", <<IntValue, UValue>>, FieldArray)>>)),
    For(Variable("i", UintType), UValue, UValue,
        << Definition(AIdentifier(Variable("c", PairStruct)),
                      SExpr("Value", "", <<IntValue, FIdentifier("b")>>, PairStruct)),
           Assertion(BIdentifier("a")) >>) }

TyStmtPool == TyPlainStmts \cup TyIntStmts

Parameter(n) == [id |-> [id |-> n, type |-> "field"], private |-> TRUE]

Function(fid, ps, ss) == [fid |-> fid, arguments |-> ps, statements |-> ss, signature |-> fid]

Here(fun) == [k |-> "Here", fun |-> <<fun>>, there |-> ""]

There(m, key) == [k |-> "There", fun |-> <<>>, there |-> <<m, key>>]

Symbol(key, s) == [key |-> key, symbol |-> s]

Module(id, fs) == [id |-> id, module |-> [functions |-> fs]]

LibFunction == Function("lib::g", <<Parameter("p")>>, <<Return(<<FIdentifier("p")>>)>>)

\* a program of one module, and programs of two modules in which the function
\* lib::g is defined Here once and imported as There symbols
TyProgs ==
  UNION { { [modules |-> <<Module("main", <<Symbol("main", Here(Function("main::main", <<Parameter("a"), Parameter("b")>>, ss)))>>)>>,
             main |-> "main"],
            [modules |-> << Module("main", << Symbol("g", There("lib", "g")),
                                               Symbol("main", Here(Function("main::main", <<>>, ss))),
                                               Symbol("g2", There("lib", "g")) >>),
                            Module("lib", <<Symbol("g", Here(LibFunction))>>) >>,
             main |-> "main"],
            [modules |-> << Module("lib", <<Symbol("g", Here(LibFunction))>>),
                            Module("util", <<Symbol("g", There("lib", "g"))>>),
                            Module("main", << Symbol("main", Here(Function("main::main", <<Parameter("a")>>, ss))),
                                              Symbol("g", There("lib", "g")) >>) >>,
             main |-> "main"] } :
          ss \in SeqsUpTo(TyStmtPool, TyMaxStmts) }

\* the whole fold by a folder that never fails
FullFold(p) == Call("fold_program", FoldState(0), p)

(***************************************************************************)
(* fold_program as a state machine: one step per module                    *)
(***************************************************************************)
NoResult == [res |-> "none", err |-> <<>>, program |-> <<>>]

TyIdle ==
  [pc |-> "idle", prog |-> [modules |-> <<>>, main |-> ""], st |-> FoldState(0),
   i |-> 0, modules |-> <<>>, result |-> NoResult]

\* f.fold_program(p) is entered
TyFoldProgram ==
  /\ ty.pc = "called"
  /\ ty' = [ty EXCEPT !.pc = "modules", !.st = [Enter(ty.st, "fold_program", ty.prog) EXCEPT !.v = <<>>]]
  /\ UNCHANGED <<ir, opt>>

\* the next (module_id, module) is mapped through f.fold_module
TyFoldModule ==
  /\ ty.pc = "modules"
  /\ ty.st.res = "Ok"
  /\ ty.i < Len(ty.prog.modules)
  /\ LET m == ty.prog.modules[ty.i + 1]
         r == Call("fold_module", ty.st, m.module)
     IN ty' = [ty EXCEPT !.i = ty.i + 1, !.st = [r EXCEPT !.v = <<>>],
                         !.modules = IF r.res = "Ok"
                                     THEN Append(ty.modules, [id |-> m.id, module |-> r.v])
                                     ELSE ty.modules]
  /\ UNCHANGED <<ir, opt>>

\* every module folded: Ok(TypedProgram { modules, main: p.main })
TyReturnOk ==
  /\ ty.pc = "modules"
  /\ ty.st.res = "Ok"
  /\ ty.i = Len(ty.prog.modules)
  /\ ty' = [ty EXCEPT !.pc = "done",
                      !.result = [res |-> "Ok", err |-> <<>>,
                                  program |-> <<[modules |-> ty.modules,
                                                 main |-> ty.prog.main]>>]]
  /\ UNCHANGED <<ir, opt>>

\* an operation returned Err(e): `?` returns Err(e) from fold_program
TyReturnErr ==
  /\ ty.pc = "modules"
  /\ ty.st.res = "Err"
  /\ ty' = [ty EXCEPT !.pc = "done",
                      !.result = [res |-> "Err", err |-> ty.st.err, program |-> <<>>]]
  /\ UNCHANGED <<ir, opt>>

\* unreachable!() was executed: the fold unwinds without a result
TyPanic ==
  /\ ty.pc = "modules"
  /\ ty.st.res = "Panic"
  /\ ty' = [ty EXCEPT !.pc = "panicked"]
  /\ UNCHANGED <<ir, opt>>

TyNext ==
  \/ TyFoldProgram
  \/ TyFoldModule
  \/ TyReturnOk
  \/ TyReturnErr
  \/ TyPanic

(***************************************************************************)
(* Semantics of a constraint system over the coefficient ring              *)
(***************************************************************************)
VarsOfLin(e) == {e[i][1] : i \in DOMAIN e}

VarsOfQuad(q) == VarsOfLin(q.left) \cup VarsOfLin(q.right)

VarsOfStmt(s) ==
  VarsOfQuad(s.quad) \cup VarsOfLin(s.lin)
    \cup UNION {VarsOfQuad(s.inputs[i]) : i \in DOMAIN s.inputs}
    \cup Range(s.outputs)

VarsOfStmts(ss) == UNION {VarsOfStmt(ss[i]) : i \in DOMAIN ss}

\* every assignment of ring values to the wires; the wire one carries 1
Assignments == {a \in [Vars -> 0..(Modulus - 1)] : a[One] = 1}

RECURSIVE EvalLin(_, _)
EvalLin(e, a) ==
  IF e = <<>> THEN 0
  ELSE (e[1][2] * a[e[1][1]] + EvalLin(Tail(e), a)) % Modulus

\* Constraint(quad, lin, _) asserts left * right = lin; a Directive asserts nothing
Satisfies(a, s) ==
  \/ s.k = "Directive"
  \/ (EvalLin(s.quad.left, a) * EvalLin(s.quad.right, a)) % Modulus = EvalLin(s.lin, a)

SatisfiesAll(a, ss) == \A i \in DOMAIN ss : Satisfies(a, ss[i])

(***************************************************************************)
(* The five passes of optimizer/{redefinition,tautology,canonicalizer,     *)
(* directive,duplicate}.rs.  Each is a Folder with state; pst is the       *)
(* record of the state of all five:                                        *)
(*   substitution, ignore, defined   RedefinitionOptimizer                 *)
(*   referenced, pending             DirectiveOptimizer                    *)
(*   signatures                      DuplicateOptimizer                    *)
(* A pass answers fold_statement with [out, st]: the statements it emits   *)
(* and the state it is left in.                                            *)
(***************************************************************************)
\* RedefinitionOptimizer::init(&p): nothing substituted, the arguments protected
RedefinitionOptimizer_init(p) ==
  [substitution |-> IdVar,
   ignore |-> {p.arguments[i].id : i \in DOMAIN p.arguments},
   defined |-> {One},
   referenced |-> {},
   pending |-> <<>>,
   signatures |-> {}]

IsOneLin(l) == l = <<<<One, 1>>>>

IsVarLin(l) == Len(l) = 1 /\ l[1][2] = 1

\* <<y, x>> when the constraint is exactly y := x (1 * x = y or x * 1 = y)
RedefinitionOf(q, l) ==
  IF IsVarLin(l) /\ IsOneLin(q.left) /\ IsVarLin(q.right)
  THEN <<l[1][1], q.right[1][1]>>
  ELSE IF IsVarLin(l) /\ IsOneLin(q.right) /\ IsVarLin(q.left)
       THEN <<l[1][1], q.left[1][1]>>
       ELSE <<>>

\* the pass overrides fold_variable: a substituted variable is replaced
RedefinitionFolder(pst) == Folder("variable", pst.substitution, <<>>)

\* the state and the output once the statement is folded: a redefinition d of a
\* variable neither protected nor defined is recorded and removed
RedefinitionStep(pst, s, folded, d, known) ==
  IF s.k = "Directive"
  THEN [out |-> <<folded>>,
        st |-> [pst EXCEPT !.ignore = @ \cup Range(folded.outputs),
                           !.defined = known]]
  ELSE IF /\ d # <<>>
          /\ d[1] # d[2]
          /\ d[1] \notin pst.ignore
          /\ d[1] \notin pst.defined
       THEN [out |-> <<>>,
             st |-> [pst EXCEPT !.substitution[d[1]] = d[2], !.defined = known]]
       ELSE [out |-> <<folded>>, st |-> [pst EXCEPT !.defined = known]]

RedefinitionFolded(pst, s, folded) ==
  RedefinitionStep(pst, s, folded, RedefinitionOf(folded.quad, folded.lin),
                   pst.defined \cup VarsOfStmt(s) \cup VarsOfStmt(folded))

RedefinitionOptimizer_fold_statement(pst, s) ==
  RedefinitionFolded(pst, s, fold_statement(RedefinitionFolder(pst), s).v[1])

\* the linear form of a quadratic combination one of whose sides is 1
LinearOf(q) ==
  IF IsOneLin(q.left) THEN <<q.right>>
  ELSE IF IsOneLin(q.right) THEN <<q.left>> ELSE <<>>

TautologyOptimizer_fold_statement(pst, s) ==
  IF s.k = "Constraint" /\ LinearOf(s.quad) = <<s.lin>>
  THEN [out |-> <<>>, st |-> pst]
  ELSE [out |-> <<s>>, st |-> pst]

CoefficientOf(e, v) == EvalLin(e, [w \in Vars |-> IF w = v THEN 1 ELSE 0])

RECURSIVE SortedTerms(_, _)
SortedTerms(e, vs) ==
  IF vs = {} THEN <<>>
  ELSE LET v == CHOOSE x \in vs : \A y \in vs : x <= y
       IN (IF CoefficientOf(e, v) = 0 THEN <<>> ELSE <<<<v, CoefficientOf(e, v)>>>>)
            \o SortedTerms(e, vs \ {v})

\* Canonicalizer overrides fold_linear_combination: same-variable terms merged,
\* zero terms dropped, terms sorted by variable
Canonicalizer_fold_linear_combination(e) == SortedTerms(e, VarsOfLin(e))

Canonicalizer_fold_statement(pst, s) ==
  LET c(e) == Canonicalizer_fold_linear_combination(e)
      q(e) == Quad(c(e.left), c(e.right))
  IN IF s.k = "Constraint"
     THEN [out |-> <<Constraint(q(s.quad), c(s.lin), s.msg)>>, st |-> pst]
     ELSE [out |-> <<[s EXCEPT !.inputs = [i \in DOMAIN s.inputs |-> q(s.inputs[i])]]>>,
           st |-> pst]

\* a Directive is emitted once a constraint refers to one of its outputs: at once
\* when such a constraint has passed already, else it is kept back and emitted
\* just before the first constraint that does; one never referred to is removed
DirectiveOptimizer_fold_statement(pst, s) ==
  IF s.k = "Directive"
  THEN IF Range(s.outputs) \cap pst.referenced # {}
       THEN [out |-> <<s>>, st |-> pst]
       ELSE [out |-> <<>>, st |-> [pst EXCEPT !.pending = Append(@, s)]]
  ELSE LET refs == VarsOfQuad(s.quad) \cup VarsOfLin(s.lin)
           used(d) == Range(d.outputs) \cap refs # {}
           unused(d) == Range(d.outputs) \cap refs = {}
       IN [out |-> Append(SelectSeq(pst.pending, used), s),
           st |-> [pst EXCEPT !.referenced = @ \cup refs,
                              !.pending = SelectSeq(@, unused)]]

\* a constraint whose (quad, lin) was already emitted is removed, whatever its message
DuplicateOptimizer_fold_statement(pst, s) ==
  IF s.k = "Constraint"
  THEN IF <<s.quad, s.lin>> \in pst.signatures
       THEN [out |-> <<>>, st |-> pst]
       ELSE [out |-> <<s>>, st |-> [pst EXCEPT !.signatures = @ \cup {<<s.quad, s.lin>>}]]
  ELSE [out |-> <<s>>, st |-> pst]

PassFoldStatement(pass, pst, s) ==
  CASE pass = "redefinition" -> RedefinitionOptimizer_fold_statement(pst, s)
    [] pass = "tautology" -> TautologyOptimizer_fold_statement(pst, s)
    [] pass = "canonicalizer" -> Canonicalizer_fold_statement(pst, s)
    [] pass = "directive" -> DirectiveOptimizer_fold_statement(pst, s)
    [] pass = "duplicate" -> DuplicateOptimizer_fold_statement(pst, s)

\* fold_argument of a pass: the default of ir::folder over the pass's fold_variable
PassFoldArgument(pass, pst, a) ==
  IF pass = "redefinition"
  THEN fold_argument(RedefinitionFolder(pst), a).v
  ELSE fold_argument(DefaultFolder, a).v

(***************************************************************************)
(* ProgIterator::optimize (optimizer/mod.rs)                               *)
(***************************************************************************)
\* (mutation) the arguments are mapped through the canonicalizer as well
ArgumentPasses_five ==
  <<"redefinition", "tautology", "canonicalizer", "directive", "duplicate">>

\* the passes whose fold_argument the arguments are mapped through, in order
ArgumentPasses == <<"redefinition", "tautology", "directive", "duplicate">>

\* (mutation) directive pruning chained before canonicalization
StatementPasses_directive_first ==
  <<"redefinition", "tautology", "directive", "canonicalizer", "duplicate">>

\* (mutation) directive pruning chained before tautology elimination
StatementPasses_directive_second ==
  <<"redefinition", "directive", "tautology", "canonicalizer", "duplicate">>

\* (mutation) duplicate elimination chained before canonicalization
StatementPasses_duplicate_third ==
  <<"redefinition", "tautology", "duplicate", "canonicalizer", "directive">>

\* the passes the statement iterator is flat_mapped through, in order
StatementPasses ==
  <<"redefinition", "tautology", "canonicalizer", "directive", "duplicate">>

Stages == 1..Len(StatementPasses)

\* a.map(f1).map(f2)...: the argument folded by each pass of ps in turn
RECURSIVE FoldArgumentThrough(_, _, _)
FoldArgumentThrough(ps, pst, a) ==
  IF ps = <<>> THEN [v |-> a, log |-> <<>>]
  ELSE LET r == FoldArgumentThrough(Tail(ps), pst, PassFoldArgument(Head(ps), pst, a))
       IN [v |-> r.v, log |-> <<[pass |-> Head(ps), arg |-> a]>> \o r.log]

OptIdle ==
  [pc |-> "idle", prog |-> [arguments |-> <<>>, statements |-> <<>>, return_count |-> 0],
   pst |-> RedefinitionOptimizer_init([arguments |-> <<>>]),
   i |-> 0, arguments |-> <<>>, return_count |-> 0, src |-> 0,
   buf |-> [k \in Stages |-> <<>>], out |-> <<>>, argLog |-> <<>>, events |-> <<>>,
   run |-> 1]

OptStmtPool ==
  { Constraint(Quad(<<<<One, 1>>>>, <<<<2, 1>>>>), <<<<3, 1>>>>, "none"),
    Constraint(Quad(<<<<1, 1>>>>, <<<<One, 1>>>>), <<<<2, 1>>>>, "none"),
    Constraint(Quad(<<<<1, 1>>>>, <<<<1, 1>>>>), <<<<2, 1>>>>, "m1"),
    Constraint(Quad(<<<<1, 1>>>>, <<<<1, 1>>>>), <<<<2, 1>>>>, "m2"),
    Constraint(Quad(<<<<1, 1>>>>, <<<<1, 1>>>>), <<<<2, 2>>, <<2, 2>>>>, "none"),
    Constraint(Quad(<<<<3, 1>>>>, <<<<2, 1>>>>), <<<<1, 1>>>>, "none"),
    Constraint(Quad(<<<<3, 1>>>>, <<<<One, 1>>>>), <<<<3, 1>>>>, "none"),
    Constraint(Quad(<<<<One, 1>>>>, <<<<1, 1>>, <<3, 2>>, <<3, 1>>>>), <<<<2, 1>>>>, "none"),
    Constraint(Quad(<<<<3, 1>>, <<1, 1>>>>, <<<<2, 1>>>>), <<<<2, 2>>, <<2, 2>>>>, "m1"),
    Directive(<<Quad(<<<<1, 1>>>>, <<<<One, 1>>>>)>>, <<3>>, "s1"),
    Directive(<<Quad(<<<<3, 1>>, <<3, 1>>>>, <<<<3, 1>>>>)>>, <<2>>, "s1") }

OptInterfaces ==
  { [arguments |-> <<>>, return_count |-> 1],
    [arguments |-> <<FlatParameter(1, TRUE)>>, return_count |-> 0],
    [arguments |-> <<FlatParameter(1, FALSE), FlatParameter(2, TRUE)>>, return_count |-> 1] }

OptProgs ==
  { [arguments |-> x.arguments, statements |-> ss, return_count |-> x.return_count] :
      x \in OptInterfaces, ss \in SeqsUpTo(OptStmtPool, OptMaxStmts) }

\* (mutation) the redefinition optimizer is built like the other four, by
\* default, not from the program
OptOptimize_default ==
  /\ opt.pc = "constructed"
  /\ opt' = [opt EXCEPT !.pc = "arguments",
                        !.pst = RedefinitionOptimizer_init([arguments |-> <<>>])]
  /\ UNCHANGED <<ir, ty>>

\* optimize is called: the five optimizer steps are defined
OptOptimize ==
  /\ opt.pc = "constructed"
  /\ opt' = [opt EXCEPT !.pc = "arguments", !.pst = RedefinitionOptimizer_init(opt.prog)]
  /\ UNCHANGED <<ir, ty>>

OptFoldArgument ==
  /\ opt.pc = "arguments"
  /\ opt.i < Len(opt.prog.arguments)
  /\ LET r == FoldArgumentThrough(ArgumentPasses, opt.pst, opt.prog.arguments[opt.i + 1])
     IN opt' = [opt EXCEPT !.i = opt.i + 1,
                           !.arguments = Append(opt.arguments, r.v),
                           !.argLog = opt.argLog \o r.log]
  /\ UNCHANGED <<ir, ty>>

\* (mutation) the ProgIterator is returned before the arguments are collected
OptReturn_uncollected ==
  /\ opt.pc = "arguments"
  /\ opt' = [opt EXCEPT !.pc = "iterating", !.return_count = opt.prog.return_count]
  /\ UNCHANGED <<ir, ty>>

\* the arguments are collected and the ProgIterator is returned
OptReturn ==
  /\ opt.pc = "arguments"
  /\ opt.i = Len(opt.prog.arguments)
  /\ opt' = [opt EXCEPT !.pc = "iterating", !.return_count = opt.prog.return_count]
  /\ UNCHANGED <<ir, ty>>

\* stage k folds one statement: its flat_map replaces its (empty) inner iterator
StageFold(k, item) ==
  LET pass == StatementPasses[k]
      r == PassFoldStatement(pass, opt.pst, item.s)
  IN [pst |-> r.st,
      emitted |-> [j \in DOMAIN r.out |->
                     [s |-> r.out[j], src |-> item.src, hist |-> Append(item.hist, pass)]],
      event |-> [pass |-> pass, src |-> item.src, hist |-> item.hist, n |-> Len(r.out),
                 s |-> item.s,
                 held |-> [j \in Stages |-> {opt.buf[j][n].src : n \in DOMAIN opt.buf[j]}]]]

\* (mutation) the first stage runs ahead of the stages after it
OptPullSource_eager ==
  /\ opt.pc = "iterating"
  /\ opt.buf[1] = <<>>
  /\ opt.src < Len(opt.prog.statements)
  /\ LET item == [s |-> opt.prog.statements[opt.src + 1], src |-> opt.src + 1, hist |-> <<>>]
         r == StageFold(1, item)
     IN opt' = [opt EXCEPT !.src = opt.src + 1, !.pst = r.pst,
                           !.buf[1] = r.emitted,
                           !.events = Append(opt.events, r.event)]
  /\ UNCHANGED <<ir, ty>>

\* the consumer's next() reaches the source: every stage's inner iterator is empty
OptPullSource ==
  /\ opt.pc = "iterating"
  /\ \A j \in Stages : opt.buf[j] = <<>>
  /\ opt.src < Len(opt.prog.statements)
  /\ LET item == [s |-> opt.prog.statements[opt.src + 1], src |-> opt.src + 1, hist |-> <<>>]
         r == StageFold(1, item)
     IN opt' = [opt EXCEPT !.src = opt.src + 1, !.pst = r.pst,
                           !.buf[1] = r.emitted,
                           !.events = Append(opt.events, r.event)]
  /\ UNCHANGED <<ir, ty>>

\* next() of stage k finds its inner iterator empty and stage k - 1 yields a statement
OptPullStage(k) ==
  /\ opt.pc = "iterating"
  /\ k > 1
  /\ \A j \in Stages : j >= k => opt.buf[j] = <<>>
  /\ opt.buf[k - 1] # <<>>
  /\ LET r == StageFold(k, Head(opt.buf[k - 1]))
     IN opt' = [opt EXCEPT !.pst = r.pst,
                           !.buf[k - 1] = Tail(opt.buf[k - 1]),
                           !.buf[k] = r.emitted,
                           !.events = Append(opt.events, r.event)]
  /\ UNCHANGED <<ir, ty>>

\* the last stage yields a statement to the consumer
OptYield ==
  /\ opt.pc = "iterating"
  /\ opt.buf[Len(StatementPasses)] # <<>>
  /\ opt' = [opt EXCEPT !.buf[Len(StatementPasses)] = Tail(@),
                        !.out = Append(opt.out, Head(opt.buf[Len(StatementPasses)]))]
  /\ UNCHANGED <<ir, ty>>

\* the source is exhausted and so is every stage: next() answers None
OptExhausted ==
  /\ opt.pc = "iterating"
  /\ \A j \in Stages : opt.buf[j] = <<>>
  /\ opt.src = Len(opt.prog.statements)
  /\ opt' = [opt EXCEPT !.pc = "done"]
  /\ UNCHANGED <<ir, ty>>

\* the statements the consumer has received
OptStatements == [n \in DOMAIN opt.out |-> opt.out[n].s]

\* the caller builds a ProgIterator of what optimize returned, to optimize it
\* once more
OptOptimizeAgain ==
  /\ opt.pc = "done"
  /\ opt.run = 1
  /\ opt' = [OptIdle EXCEPT !.pc = "constructed", !.run = 2,
                            !.prog = [arguments |-> opt.arguments,
                                      statements |-> OptStatements,
                                      return_count |-> opt.return_count]]
  /\ UNCHANGED <<ir, ty>>

OptNext ==
  \/ OptOptimize
  \/ OptFoldArgument
  \/ OptReturn
  \/ OptPullSource
  \/ \E k \in Stages : OptPullStage(k)
  \/ OptYield
  \/ OptExhausted
  \/ OptOptimizeAgain

\* a program and a Folder are given; nothing else runs
IRInit ==
  \E p \in IRProgs : \E f \in IRFolders(p) :
    /\ ty = TyIdle
    /\ opt = OptIdle
    /\ ir = [IRIdle EXCEPT !.pc = "arguments", !.prog = p, !.f = f]

\* a typed program and a ResultFolder: one failing at call n (0: never), or
\* one that never fails and renames the Identifier n
TyInit ==
  \E p \in TyProgs :
    \E f \in {FoldState(n) : n \in 0..Len(FullFold(p).log)}
              \cup {[FoldState(0) EXCEPT !.ren = <<"n", "m">>]} :
      /\ ir = IRIdle
      /\ opt = OptIdle
      /\ ty = [TyIdle EXCEPT !.pc = "called", !.prog = p, !.st = f]

\* a ProgIterator is constructed; optimize is not called yet
OptInit ==
  \E p \in OptProgs :
    /\ ir = IRIdle
    /\ ty = TyIdle
    /\ opt = [OptIdle EXCEPT !.pc = "constructed", !.prog = p]

SpecIR == IRInit /\ [][IRNext]_vars

SpecOpt == OptInit /\ [][OptNext]_vars

SpecTyped == TyInit /\ [][TyNext]_vars

Init == IRInit \/ TyInit \/ OptInit

Next == IRNext \/ TyNext \/ OptNext

Spec == Init /\ [][Next]_vars

(***************************************************************************)
(* Properties                                                              *)
(***************************************************************************)
OptDone == opt.pc = "done"

\* the variables that survive optimization
Surviving ==
  VarsOfStmts(OptStatements) \cup {opt.arguments[i].id : i \in DOMAIN opt.arguments}
    \cup {One}

\* C1 as stated: an assignment satisfies the input program if and only if its
\* restriction to the surviving variables satisfies the optimized program
\* (the optimized program reads surviving variables only).
C1_SameSolutions ==
  OptDone =>
    \A a \in Assignments :
      SatisfiesAll(a, opt.prog.statements) <=> SatisfiesAll(a, OptStatements)

\* C1 amended: every assignment satisfying the input program satisfies the
\* optimized program, and every assignment satisfying the optimized program
\* agrees on the surviving variables with one that satisfies the input program.
C1_SolutionsProjected ==
  OptDone =>
    \A a \in Assignments :
      /\ SatisfiesAll(a, opt.prog.statements) => SatisfiesAll(a, OptStatements)
      /\ SatisfiesAll(a, OptStatements) =>
           \E b \in Assignments :
             /\ \A v \in Surviving : b[v] = a[v]
             /\ SatisfiesAll(b, opt.prog.statements)

\* a redefinition was eliminated and its substitution applied to a constraint
\* that reached the output, and the input program has a solution
C1_Witness ==
  /\ OptDone
  /\ opt.pst.substitution # IdVar
  /\ \E n \in DOMAIN opt.out :
       /\ opt.out[n].s.k = "Constraint"
       /\ opt.out[n].s # opt.prog.statements[opt.out[n].src]
  /\ \E a \in Assignments : SatisfiesAll(a, opt.prog.statements)

\* C2: the optimized program has the arguments of the input program (same
\* length, order, variable and private flag at every position) and its return
\* count, whatever statements have been folded.
C2_InterfacePreserved ==
  /\ opt.pc = "arguments" => opt.arguments = SubSeq(opt.prog.arguments, 1, opt.i)
  /\ opt.pc \in {"iterating", "done"} =>
       /\ Len(opt.arguments) = Len(opt.prog.arguments)
       /\ \A i \in DOMAIN opt.arguments :
            /\ opt.arguments[i].id = opt.prog.arguments[i].id
            /\ opt.arguments[i].private = opt.prog.arguments[i].private
       /\ opt.return_count = opt.prog.return_count

\* a program with a public and a private argument was optimized to the end and
\* a statement was removed
C2_Witness ==
  /\ OptDone
  /\ \E i, j \in DOMAIN opt.arguments :
       opt.arguments[i].private /\ ~opt.arguments[j].private
  /\ opt.return_count = 1
  /\ Len(opt.out) < Len(opt.prog.statements)

ClaimedOrder ==
  <<"redefinition", "tautology", "canonicalizer", "directive", "duplicate">>

RECURSIVE EmittedCount(_, _, _)
EmittedCount(evs, pass, src) ==
  IF evs = <<>> THEN 0
  ELSE (IF evs[1].pass = pass /\ evs[1].src = src THEN evs[1].n ELSE 0)
         + EmittedCount(Tail(evs), pass, src)

FoldCount(evs, pass, src) ==
  Cardinality({e \in DOMAIN evs : evs[e].pass = pass /\ evs[e].src = src})

HeldCount(k, src) ==
  Cardinality({n \in DOMAIN opt.buf[k] : opt.buf[k][n].src = src})

\* C7: a statement that reaches the output was folded by the five passes in the
\* order redefinition, tautology, canonicalization, directive, duplicate; a pass
\* folds only what the pass before it emitted (the first one the input), so a
\* statement a pass drops is folded by no later pass.
C7_FixedPassOrder ==
  /\ \A n \in DOMAIN opt.out : opt.out[n].hist = ClaimedOrder
  /\ \A e \in DOMAIN opt.events :
       \E k \in DOMAIN ClaimedOrder :
         /\ opt.events[e].pass = ClaimedOrder[k]
         /\ opt.events[e].hist = SubSeq(ClaimedOrder, 1, k - 1)
  /\ \A src \in 1..Len(opt.prog.statements) :
       /\ FoldCount(opt.events, ClaimedOrder[1], src) = (IF src <= opt.src THEN 1 ELSE 0)
       /\ \A k \in 1..(Len(ClaimedOrder) - 1) :
            FoldCount(opt.events, ClaimedOrder[k + 1], src) + HeldCount(k, src)
              = EmittedCount(opt.events, ClaimedOrder[k], src)

\* a statement reached the output and another was dropped before the last pass
C7_Witness ==
  /\ OptDone
  /\ opt.out # <<>>
  /\ \E e \in DOMAIN opt.events :
       opt.events[e].n = 0 /\ opt.events[e].pass \in {"redefinition", "tautology", "directive"}
  /\ \E e \in DOMAIN opt.events : opt.events[e].pass = "duplicate" /\ opt.events[e].n = 0

IRDone == ir.pc = "done"

\* the typed program has an Int expression among the operands of its statements
RECURSIVE ExprHasInt(_)
ExprHasInt(e) ==
  \/ e.sort = "Int"
  \/ \E i \in DOMAIN e.kids : ExprHasInt(e.kids[i])
  \/ \E i \in DOMAIN e.gens : e.gens[i] # <<>> /\ ExprHasInt(e.gens[i][1])

RECURSIVE AssigneeHasInt(_)
AssigneeHasInt(a) ==
  \/ \E i \in DOMAIN a.index : ExprHasInt(a.index[i])
  \/ \E i \in DOMAIN a.of : AssigneeHasInt(a.of[i])

RECURSIVE StmtHasInt(_)
StmtHasInt(s) ==
  \/ \E i \in DOMAIN s.exprs : ExprHasInt(s.exprs[i])
  \/ \E i \in DOMAIN s.assignees : AssigneeHasInt(s.assignees[i])
  \/ \E i \in DOMAIN s.body : StmtHasInt(s.body[i])
  \/ \E i \in DOMAIN s.elist :
       \/ \E j \in DOMAIN s.elist[i].args : ExprHasInt(s.elist[i].args[j])
       \/ \E j \in DOMAIN s.elist[i].gens :
            s.elist[i].gens[j] # <<>> /\ ExprHasInt(s.elist[i].gens[j][1])

HereFunctions(p) ==
  { p.modules[m].module.functions[j].symbol.fun[1] :
      <<m, j>> \in { x \in (DOMAIN p.modules) \X (1..3) :
                      /\ x[2] \in DOMAIN p.modules[x[1]].module.functions
                      /\ p.modules[x[1]].module.functions[x[2]].symbol.k = "Here" } }

IntReachable(p) ==
  \E fun \in HereFunctions(p) : \E i \in DOMAIN fun.statements : StmtHasInt(fun.statements[i])

\* C3: when an operation returns Err(e), fold_program returns exactly Err(e)
\* with no program, and the failing call is the last call of the fold: the
\* calls made are the calls a fold that does not fail makes up to that node,
\* none on a later operand, statement, function or module.
C3_FailFast ==
  /\ ty.st.res = "Err" =>
       /\ Len(ty.st.log) = ty.st.failAt
       /\ ty.st.log = SubSeq(FullFold(ty.prog).log, 1, ty.st.failAt)
       /\ ty.st.err = <<"CompileError", ty.st.failAt>>
  /\ (ty.pc = "done" /\ ty.st.failAt > 0) =>
       ty.result = [res |-> "Err", err |-> <<"CompileError", ty.st.failAt>>, program |-> <<>>]
  /\ ty.st.failAt > 0 => ty.pc # "panicked" /\ Len(ty.st.log) <= ty.st.failAt

\* an operand of an expression failed; operands, statements and a module that
\* come after it were left unfolded
C3_Witness ==
  /\ ty.pc = "done"
  /\ ty.result.res = "Err"
  /\ ty.st.log[ty.st.failAt][1] \in {"fold_field_expression", "fold_name"}
  /\ ty.i < Len(ty.prog.modules)
  /\ Len(FullFold(ty.prog).log) > ty.st.failAt + 20
  /\ \E f \in HereFunctions(ty.prog) : Len(f.statements) = 2

\* C4: a folder that overrides nothing returns from ir::folder::fold_module a
\* Prog equal to its input, and from ResultFolder::fold_program Ok of a program
\* equal to its input when no Int expression is reachable.
C4_Identity ==
  /\ (IRDone /\ ir.f.kind = "default") => IRResult = ir.prog
  /\ (ty.st.failAt = 0 /\ ty.st.ren = <<>> /\ ~IntReachable(ty.prog)) =>
       /\ ty.st.res = "Ok"
       /\ ty.pc # "panicked"
       /\ ty.pc = "done" => ty.result = [res |-> "Ok", err |-> <<>>, program |-> <<ty.prog>>]

\* a program of three modules with a loop was folded to the end by a folder
\* that overrides nothing
C4_Witness ==
  /\ ty.pc = "done"
  /\ ty.st.failAt = 0
  /\ ty.st.ren = <<>>
  /\ ty.result.res = "Ok"
  /\ Len(ty.prog.modules) = 3
  /\ \E fun \in HereFunctions(ty.prog) :
       Len(fun.statements) = 2 /\ fun.statements[1].k = "For"

LinSubstituted(g, a, b) ==
  /\ Len(b) = Len(a)
  /\ \A i \in DOMAIN a : b[i] = <<g[a[i][1]], a[i][2]>>

QuadSubstituted(g, a, b) ==
  LinSubstituted(g, a.left, b.left) /\ LinSubstituted(g, a.right, b.right)

StmtSubstituted(g, a, b) ==
  /\ b.k = a.k /\ b.msg = a.msg /\ b.solver = a.solver
  /\ QuadSubstituted(g, a.quad, b.quad)
  /\ LinSubstituted(g, a.lin, b.lin)
  /\ Len(b.inputs) = Len(a.inputs)
  /\ \A i \in DOMAIN a.inputs : QuadSubstituted(g, a.inputs[i], b.inputs[i])
  /\ Len(b.outputs) = Len(a.outputs)
  /\ \A i \in DOMAIN a.outputs : b.outputs[i] = g[a.outputs[i]]

Occurrences(s, v) == Cardinality({i \in DOMAIN s : s[i] = v})

LinOccurrences(e, v) == Cardinality({i \in DOMAIN e : e[i][1] = v})

QuadOccurrences(q, v) == LinOccurrences(q.left, v) + LinOccurrences(q.right, v)

RECURSIVE QuadsOccurrences(_, _)
QuadsOccurrences(qs, v) ==
  IF qs = <<>> THEN 0 ELSE QuadOccurrences(Head(qs), v) + QuadsOccurrences(Tail(qs), v)

RECURSIVE StmtsOccurrences(_, _)
StmtsOccurrences(ss, v) ==
  IF ss = <<>> THEN 0
  ELSE QuadOccurrences(ss[1].quad, v) + LinOccurrences(ss[1].lin, v)
         + QuadsOccurrences(ss[1].inputs, v) + Occurrences(ss[1].outputs, v)
         + StmtsOccurrences(Tail(ss), v)

ProgOccurrences(p, v) ==
  Cardinality({i \in DOMAIN p.arguments : p.arguments[i].id = v})
    + StmtsOccurrences(p.statements, v) + Occurrences(p.returns, v)

\* C5: with only fold_variable overridden by g, fold_module calls fold_variable
\* once per variable occurrence of the program and returns the program with g
\* applied to every occurrence and nothing else changed.
C5_UniformSubstitution ==
  (IRDone /\ ir.f.kind = "variable") =>
    /\ Len(ir.arguments) = Len(ir.prog.arguments)
    /\ \A i \in DOMAIN ir.arguments :
         ir.arguments[i] = [id |-> ir.f.g[ir.prog.arguments[i].id],
                            private |-> ir.prog.arguments[i].private]
    /\ Len(ir.statements) = Len(ir.prog.statements)
    /\ \A i \in DOMAIN ir.statements :
         StmtSubstituted(ir.f.g, ir.prog.statements[i], ir.statements[i])
    /\ Len(ir.returns) = Len(ir.prog.returns)
    /\ \A i \in DOMAIN ir.returns : ir.returns[i] = ir.f.g[ir.prog.returns[i]]
    /\ \A v \in Vars : Occurrences(ir.calls, v) = ProgOccurrences(ir.prog, v)

\* a substitution that changes the program was applied to a program with
\* arguments, returns, a constraint and a directive
C5_Witness ==
  /\ IRDone
  /\ ir.f.kind = "variable"
  /\ ir.prog.arguments # <<>> /\ ir.prog.returns # <<>>
  /\ \E i, j \in DOMAIN ir.prog.statements :
       ir.prog.statements[i].k = "Constraint" /\ ir.prog.statements[j].k = "Directive"
  /\ \A i \in DOMAIN ir.statements : ir.statements[i] # ir.prog.statements[i]

\* C6: the statements of the result are the concatenation, in input order, of
\* what fold_statement returned for each input statement, fold_statement being
\* called once per input statement in input order.
C6_Flattening ==
  /\ ir.statements = Flatten([n \in DOMAIN ir.folded |-> ir.folded[n].out])
  /\ \A n \in DOMAIN ir.folded : ir.folded[n].s = ir.prog.statements[n]
  /\ ir.pc = "statements" => Len(ir.folded) = ir.i
  /\ ir.pc \in {"returns", "done"} => Len(ir.folded) = Len(ir.prog.statements)
  /\ ir.pc \in {"idle", "arguments"} => ir.folded = <<>>

\* one statement was deleted and another expanded into two
C6_Witness ==
  /\ IRDone
  /\ Len(ir.folded) = 2
  /\ ir.folded[1].out = <<>>
  /\ Len(ir.folded[2].out) = 2
  /\ ir.statements = ir.folded[2].out

\* C9: folding, with the default operations, a program in which an Int
\* expression is reachable never returns Ok or Err: the fold panics in
\* fold_int_expression, a state that carries no result.
C9_FatalInt ==
  /\ (ty.st.failAt = 0 /\ IntReachable(ty.prog)) =>
       /\ ty.pc # "done"
       /\ ty.result = NoResult
       /\ ty.st.res # "Err"
       /\ ~(ty.pc = "modules" /\ ty.st.res = "Ok" /\ ty.i = Len(ty.prog.modules))
  /\ ty.pc = "panicked" =>
       /\ ty.st.res = "Panic"
       /\ ty.result = NoResult
       /\ ty.st.log[Len(ty.st.log)][1] = "fold_int_expression"

\* the fold panicked on an Int expression nested in a struct value of a loop body
C9_Witness ==
  /\ ty.pc = "panicked"
  /\ ty.st.failAt = 0
  /\ IntReachable(ty.prog)
  /\ \E n \in DOMAIN ty.st.log : ty.st.log[n][1] = "fold_struct_expression_inner"
  /\ ty.i = 3

\* C10: a There symbol is returned unchanged and no operation is invoked on it;
\* a Here symbol is folded by fold_function; each function defined Here is
\* folded exactly once by a fold_program that returns Ok.
C10_ThereNotFolded ==
  /\ \A n \in DOMAIN ty.st.log :
       /\ (ty.st.log[n] = <<"fold_function_symbol", "There">> /\ n < Len(ty.st.log)) =>
            ty.st.log[n + 1][1] \in {"fold_function_symbol", "fold_module"}
       /\ (ty.st.log[n] = <<"fold_function_symbol", "Here">> /\ n < Len(ty.st.log)) =>
            ty.st.log[n + 1][1] = "fold_function"
       /\ ty.st.log[n][1] = "fold_function" =>
            n > 1 /\ ty.st.log[n - 1] = <<"fold_function_symbol", "Here">>
  /\ \A fun \in HereFunctions(ty.prog) :
       /\ Occurrences(ty.st.log, <<"fold_function", fun.fid>>) <= 1
       /\ ty.result.res = "Ok" => Occurrences(ty.st.log, <<"fold_function", fun.fid>>) = 1
  /\ ty.result.res = "Ok" =>
       \A m \in DOMAIN ty.prog.modules :
         \A j \in DOMAIN ty.prog.modules[m].module.functions :
           ty.prog.modules[m].module.functions[j].symbol.k = "There" =>
             ty.result.program[1].modules[m].module.functions[j]
               = ty.prog.modules[m].module.functions[j]

\* a program in which lib::g is defined once and imported twice was folded
C10_Witness ==
  /\ ty.pc = "done"
  /\ ty.result.res = "Ok"
  /\ Occurrences(ty.st.log, <<"fold_function_symbol", "There">>) = 2
  /\ Occurrences(ty.st.log, <<"fold_function", "lib::g">>) = 1
  /\ Occurrences(ty.st.log, <<"fold_function", "main::main">>) = 1

\* what folding leaves of a type under the folder's fold_name: the Identifier
\* of a size renamed, the element and member types folded likewise
RECURSIVE FoldedType(_, _)
FoldedType(ren, t) ==
  CASE t.t = "Array" ->
         [t EXCEPT !.elem = <<FoldedType(ren, t.elem[1])>>,
                   !.size = <<IF ren # <<>> /\ t.size[1].op = "Identifier"
                                              /\ t.size[1].id = ren[1]
                              THEN [t.size[1] EXCEPT !.id = ren[2]]
                              ELSE t.size[1]>>]
    [] t.t = "Struct" ->
         [t EXCEPT !.members =
            [i \in DOMAIN t.members |->
               [id |-> t.members[i].id, ty |-> FoldedType(ren, t.members[i].ty)]]]
    [] OTHER -> t

\* the types of the expressions of a sort (Array, Struct) in an expression, a
\* statement, a program, in the order of the fold
RECURSIVE TypesOfExpr(_, _)
TypesOfExpr(sort, e) ==
  (IF e.sort = sort THEN e.ty ELSE <<>>)
    \o Flatten([i \in DOMAIN e.gens |->
                  IF e.gens[i] = <<>> THEN <<>> ELSE TypesOfExpr(sort, e.gens[i][1])])
    \o Flatten([i \in DOMAIN e.kids |-> TypesOfExpr(sort, e.kids[i])])

RECURSIVE TypesOfStmt(_, _)
TypesOfStmt(sort, s) ==
  Flatten([i \in DOMAIN s.exprs |-> TypesOfExpr(sort, s.exprs[i])])
    \o Flatten([i \in DOMAIN s.body |-> TypesOfStmt(sort, s.body[i])])
    \o Flatten([i \in DOMAIN s.elist |->
                  Flatten([j \in DOMAIN s.elist[i].args |->
                             TypesOfExpr(sort, s.elist[i].args[j])])])

TypesOfSymbol(sort, s) ==
  IF s.k = "Here"
  THEN Flatten([i \in DOMAIN s.fun[1].statements |-> TypesOfStmt(sort, s.fun[1].statements[i])])
  ELSE <<>>

TypesOfProgram(sort, p) ==
  Flatten([m \in DOMAIN p.modules |->
             Flatten([j \in DOMAIN p.modules[m].module.functions |->
                        TypesOfSymbol(sort, p.modules[m].module.functions[j].symbol)])])

ArrayTypesOfProgram(p) == TypesOfProgram("Array", p)

StructTypesOfProgram(p) == TypesOfProgram("Struct", p)

\* the operations a fold of a type calls (the sizes of the programs folded are
\* Identifiers and values)
TypeOperations ==
  {"fold_array_type", "fold_struct_type", "fold_type", "fold_uint_expression",
   "fold_uint_expression_inner", "fold_name"}

\* the calls of fold_array_expression_inner after call n
InnerAfter(n) ==
  {m \in DOMAIN ty.st.log : m > n /\ ty.st.log[m][1] = "fold_array_expression_inner"}

\* C11: fold_array_expression first calls fold_array_type on the declared
\* type, then fold_array_expression_inner with the type that fold returned,
\* and nothing else in between; the ArrayExpression returned carries the folded
\* type; when the fold of the type fails the inner fold is not called.
C11_ArrayTypeThreaded ==
  /\ \A n \in DOMAIN ty.st.log :
       (ty.st.log[n][1] = "fold_array_expression" /\ n < Len(ty.st.log)) =>
         /\ ty.st.log[n + 1] = <<"fold_array_type", ty.st.log[n][2][2]>>
         /\ IF InnerAfter(n) = {}
            THEN /\ ty.st.res = "Err"
                 /\ \A k \in (n + 1)..Len(ty.st.log) : ty.st.log[k][1] \in TypeOperations
            ELSE LET m == CHOOSE x \in InnerAfter(n) : \A y \in InnerAfter(n) : x <= y
                 IN /\ \A k \in (n + 1)..(m - 1) : ty.st.log[k][1] \in TypeOperations
                    /\ ty.st.log[m][2] =
                         <<ty.st.log[n][2][1], FoldedType(ty.st.ren, ty.st.log[n][2][2])>>
  /\ \A m \in DOMAIN ty.st.log :
       ty.st.log[m][1] = "fold_array_expression_inner" =>
         m > 1 /\ \E n \in 1..(m - 1) :
                   ty.st.log[n][1] = "fold_array_expression" /\ m \in InnerAfter(n)
  /\ (ty.pc = "done" /\ ty.result.res = "Ok") =>
       ArrayTypesOfProgram(ty.result.program[1]) =
         [i \in DOMAIN ArrayTypesOfProgram(ty.prog) |->
            FoldedType(ty.st.ren, ArrayTypesOfProgram(ty.prog)[i])]

\* a folder that renames the Identifier of the sizes folded a program with
\* array expressions to the end
C11_Witness ==
  /\ ty.pc = "done"
  /\ ty.result.res = "Ok"
  /\ ty.st.ren = <<"n", "m">>
  /\ Len(ArrayTypesOfProgram(ty.prog)) >= 2
  /\ ArrayTypesOfProgram(ty.result.program[1]) # ArrayTypesOfProgram(ty.prog)

\* the fold of the declared type of an array expression failed
C11_WitnessTypeFails ==
  /\ ty.pc = "done"
  /\ ty.result.res = "Err"
  /\ \E n \in DOMAIN ty.st.log :
       ty.st.log[n][1] = "fold_array_expression" /\ n < Len(ty.st.log) /\ InnerAfter(n) = {}

\* C12: fold_struct_expression first calls fold_struct_type on the declared
\* type, then fold_struct_expression_inner with the type that fold returned,
\* and the StructExpression returned carries the folded type.
C12_StructTypeThreaded ==
  /\ \A n \in DOMAIN ty.st.log :
       (ty.st.log[n][1] = "fold_struct_expression" /\ n < Len(ty.st.log)) =>
         ty.st.log[n + 1] = <<"fold_struct_type", ty.st.log[n][2][2]>>
  /\ \A m \in DOMAIN ty.st.log :
       ty.st.log[m][1] = "fold_struct_expression_inner" =>
         \E t \in {ty.st.log[n][2][2] : n \in {k \in 1..(m - 1) :
                                                 ty.st.log[k][1] = "fold_struct_expression"}} :
           ty.st.log[m][2][2] = FoldedType(ty.st.ren, t)
  /\ (ty.pc = "done" /\ ty.result.res = "Ok") =>
       StructTypesOfProgram(ty.result.program[1]) =
         [i \in DOMAIN StructTypesOfProgram(ty.prog) |->
            FoldedType(ty.st.ren, StructTypesOfProgram(ty.prog)[i])]

\* the second and third conjunct alone: the folded type reaches the inner fold
\* and the result
C12_StructTypeFolded ==
  /\ \A m \in DOMAIN ty.st.log :
       ty.st.log[m][1] = "fold_struct_expression_inner" =>
         \E t \in {ty.st.log[n][2][2] : n \in {k \in 1..(m - 1) :
                                                 ty.st.log[k][1] = "fold_struct_expression"}} :
           ty.st.log[m][2][2] = FoldedType(ty.st.ren, t)
  /\ (ty.pc = "done" /\ ty.result.res = "Ok") =>
       StructTypesOfProgram(ty.result.program[1]) =
         [i \in DOMAIN StructTypesOfProgram(ty.prog) |->
            FoldedType(ty.st.ren, StructTypesOfProgram(ty.prog)[i])]

\* C13 as stated: every argument is folded by fold_argument of each of the
\* five passes, so that a substitution a pass has recorded is applied to the
\* arguments as it is to statements.  (The ProgIterator that optimize returns
\* has a return count and no return variables.)
C13_BoundaryFolded ==
  /\ \A i \in DOMAIN opt.arguments : \A k \in DOMAIN ClaimedOrder :
       \E n \in DOMAIN opt.argLog :
         opt.argLog[n].pass = ClaimedOrder[k] /\ opt.argLog[n].arg.id = opt.prog.arguments[i].id
  /\ OptDone =>
       \A i \in DOMAIN opt.arguments :
         opt.arguments[i].id = opt.pst.substitution[opt.prog.arguments[i].id]

FourPasses == <<"redefinition", "tautology", "directive", "duplicate">>

\* C13 amended: every argument is folded, when optimize is called, by
\* fold_argument of four passes, redefinition, tautology, directive and
\* duplicate in this order, each given what the one before returned; the
\* canonicalizer folds no argument; no pass has recorded a substitution when
\* the arguments are folded, and they are returned as they were given; the
\* return count is copied, no return variable is folded.
C13_ArgumentsFolded ==
  /\ Len(opt.argLog) = Len(FourPasses) * Len(opt.arguments)
  /\ \A i \in DOMAIN opt.arguments : \A k \in DOMAIN FourPasses :
       opt.argLog[Len(FourPasses) * (i - 1) + k] =
         [pass |-> FourPasses[k], arg |-> opt.prog.arguments[i]]
  /\ opt.pc \in {"constructed", "arguments"} =>
       opt.pst.substitution = IdVar /\ opt.events = <<>>
  /\ opt.pc \in {"iterating", "done"} =>
       /\ opt.arguments = opt.prog.arguments
       /\ opt.return_count = opt.prog.return_count

\* two arguments were folded, and afterwards a redefinition of a variable by an
\* argument was recorded
C13_Witness ==
  /\ OptDone
  /\ Len(opt.arguments) = 2
  /\ \E v \in Vars : opt.pst.substitution[v] # v
                      /\ opt.pst.substitution[v] \in {opt.arguments[i].id : i \in DOMAIN opt.arguments}

C14_WitnessUnchanged ==
  /\ OptDone
  /\ opt.run = 2
  /\ Len(opt.prog.statements) = 2
  /\ OptStatements = opt.prog.statements

ArgumentVariables == {opt.prog.arguments[i].id : i \in DOMAIN opt.prog.arguments}

\* the outputs of the Directives among the first n input statements
DirectiveOutputs(n) ==
  UNION {Range(opt.prog.statements[i].outputs) :
           i \in {j \in 1..n : opt.prog.statements[j].k = "Directive"}}

\* the input statements the redefinition pass has removed
RemovedRedefinitions ==
  {opt.events[e].src : e \in {x \in DOMAIN opt.events :
                               opt.events[x].pass = "redefinition" /\ opt.events[x].n = 0}}

\* the variables the substitution map replaces
Substituted == {v \in Vars : opt.pst.substitution[v] # v}

\* a Directive outputs only variables that no statement before it mentions
FreshOutputs ==
  \A i \in DOMAIN opt.prog.statements :
    opt.prog.statements[i].k = "Directive" =>
      Range(opt.prog.statements[i].outputs)
        \cap VarsOfStmts(SubSeq(opt.prog.statements, 1, i - 1)) = {}

ReachedDirectivePass ==
  {opt.events[e].s : e \in {x \in DOMAIN opt.events : opt.events[x].pass = "directive"}}

\* the variables the constraints among the statements ss refer to
ConstraintReferences(ss) ==
  UNION {VarsOfQuad(s.quad) \cup VarsOfLin(s.lin) : s \in {x \in ss : x.k = "Constraint"}}

C16_WitnessKept ==
  /\ OptDone
  /\ FreshOutputs
  /\ \E n \in DOMAIN opt.out :
       /\ opt.out[n].s.k = "Directive"
       /\ opt.prog.statements[opt.out[n].src].k = "Constraint"
       /\ opt.out[n].src > 1
       /\ opt.prog.statements[opt.out[n].src - 1] = opt.out[n].s
       /\ n < Len(opt.out)
       /\ opt.out[n + 1].src = opt.out[n].src

\* what the fifth pass compares: the two sides of a constraint, not its message
Signature(s) == <<s.quad, s.lin>>

IsDuplicateFold(ev) == ev.pass = "duplicate"

IsEmittingFold(ev) == ev.n = 1

\* the folds of the fifth pass, in stream order
DuplicateFolds == SelectSeq(opt.events, IsDuplicateFold)

\* C17: once the iterator is exhausted no two constraints of the output have
\* the same (quad, lin); the fifth pass emits a constraint exactly when no
\* constraint with the same (quad, lin) reached it before, whatever the
\* messages, and emits every Directive; the output is the statements it
\* emitted, in order and as they reached it, message included.
C17_FirstSurvives ==
  OptDone =>
    /\ \A m, n \in DOMAIN opt.out :
         (m < n /\ opt.out[m].s.k = "Constraint" /\ opt.out[n].s.k = "Constraint")
         => Signature(opt.out[m].s) # Signature(opt.out[n].s)
    /\ \A i \in DOMAIN DuplicateFolds :
         DuplicateFolds[i].n =
           IF /\ DuplicateFolds[i].s.k = "Constraint"
              /\ \E j \in 1..(i - 1) :
                    /\ DuplicateFolds[j].s.k = "Constraint"
                    /\ Signature(DuplicateFolds[j].s) = Signature(DuplicateFolds[i].s)
           THEN 0 ELSE 1
    /\ OptStatements =
         [k \in DOMAIN SelectSeq(DuplicateFolds, IsEmittingFold) |->
            SelectSeq(DuplicateFolds, IsEmittingFold)[k].s]

\* two constraints with the same sides and different messages reached the
\* fifth pass, the second of them different from the first only after
\* canonicalization or by its message; the first is in the output with its
\* message, the second is dropped, and a constraint with other sides is kept
C17_Witness ==
  /\ OptDone
  /\ \E i, j \in DOMAIN DuplicateFolds :
       /\ i < j
       /\ DuplicateFolds[i].s.k = "Constraint"
       /\ DuplicateFolds[j].s.k = "Constraint"
       /\ Signature(DuplicateFolds[i].s) = Signature(DuplicateFolds[j].s)
       /\ DuplicateFolds[i].s.msg # DuplicateFolds[j].s.msg
       /\ DuplicateFolds[j].n = 0
       /\ DuplicateFolds[i].s \in Range(OptStatements)
       /\ DuplicateFolds[j].s \notin Range(OptStatements)
  /\ \E m, n \in DOMAIN opt.out :
       /\ m < n
       /\ opt.out[m].s.k = "Constraint"
       /\ opt.out[n].s.k = "Constraint"

\* the two constraints differ in the input and are equal once canonicalized
C17_WitnessCanonical ==
  /\ OptDone
  /\ \E i, j \in DOMAIN DuplicateFolds :
       /\ i < j
       /\ DuplicateFolds[i].s.k = "Constraint"
       /\ Signature(DuplicateFolds[i].s) = Signature(DuplicateFolds[j].s)
       /\ DuplicateFolds[j].n = 0
       /\ Signature(opt.prog.statements[DuplicateFolds[i].src])
            # Signature(opt.prog.statements[DuplicateFolds[j].src])

\* C18: within one call of optimize, a step that folds an argument is taken
\* while no statement has been folded and leaves the pass state as it is, the
\* argument going through redefinition, tautology, directive, duplicate in this
\* order; a step that folds a statement is a step of the returned iterator,
\* taken when every argument has been folded by the four passes, and folds no
\* argument; the step that returns the iterator has folded every argument and
\* no statement.
C18_ArgumentsBeforeStatements ==
  [][/\ (opt'.argLog # opt.argLog /\ opt'.run = opt.run) =>
          /\ opt.pc = "arguments"
          /\ opt.events = <<>> /\ opt'.events = <<>>
          /\ opt'.pst = opt.pst
          /\ \A n \in DOMAIN opt'.argLog :
               opt'.argLog[n].pass = ArgumentPasses[((n - 1) % Len(ArgumentPasses)) + 1]
     /\ (opt'.events # opt.events /\ opt'.run = opt.run) =>
          /\ opt.pc = "iterating"
          /\ Len(opt.argLog) = Len(ArgumentPasses) * Len(opt.prog.arguments)
          /\ Len(opt.arguments) = Len(opt.prog.arguments)
          /\ opt'.argLog = opt.argLog
          /\ opt'.arguments = opt.arguments
     /\ (opt.pc = "arguments" /\ opt'.pc = "iterating") =>
          /\ Len(opt'.arguments) = Len(opt.prog.arguments)
          /\ opt'.events = <<>>
          /\ opt'.out = <<>>
    ]_vars

\* optimize has returned for a program with two arguments and statements: the
\* arguments are folded by the four passes and no statement is folded
C18_Witness ==
  /\ opt.pc = "iterating"
  /\ Len(opt.prog.arguments) = 2
  /\ opt.prog.statements # <<>>
  /\ Len(opt.argLog) = 8
  /\ opt.argLog[1].pass = "redefinition"
  /\ opt.events = <<>>
  /\ opt.src = 0

\* statements are being folded after the arguments
C18_WitnessConsumed ==
  /\ opt.pc = "iterating"
  /\ Len(opt.argLog) = 8
  /\ Len(opt.events) > 5

====
